---- MODULE Spec2Model ----
(***************************************************************************)
(* State-machine model of the news-harvest pipeline of globe_news_scraper: *)
(* NewsPipeline.run_pipeline iterating the markets of its news source,     *)
(* BingNewsSource.get_country_trending_news with its tenacity retry,       *)
(* the per-market worker tasks (_build_article -> ArticleBuilder.build ->  *)
(* WebContentFetcher.fetch_content), the RequestTracker / ArticleCounter   *)
(* telemetry and MongoHandler.insert_bulk_articles.                        *)
(***************************************************************************)
EXTENDS Integers, Sequences, FiniteSets, TLC

\* ---------------------------------------------------------------- bounds
\* number of markets in BING_SEARCH_COUNTRIES
NumMarkets == 2
\* largest number of items one trending response carries
MaxItems == 2
\* cap on the HTTP requests one market may issue (keeps a runaway retry finite)
MaxRequests == 5
\* cap on the stages one fetch_content call may run (keeps a runaway chain finite)
MaxStages == 4
\* largest number of tokens of an extracted article body
MaxContentLen == 4
\* worker threads updating telemetry concurrently
NumThreads == 2
\* telemetry updates one thread makes
MaxCalls == 2
\* calls of scrape_news that main() makes before the process is left alone
MaxRuns == 2

\* ------------------------------------------------------- program constants
\* stop_after_attempt(3) of the retry decorator
StopAfterAttempt == 3
\* the status the API answers with when the rate limit is exceeded
RateLimitStatus == 429
\* Config.MAX_SCRAPING_WORKERS
MAX_SCRAPING_WORKERS == 5

\* items of a discovery batch that is one larger than the worker pool
MaxBatch == MAX_SCRAPING_WORKERS + 1

\* -------------------------------------------------------------- data sets
\* "None" of the source
None == "None"

\* urls the news API can hand out; the first lives on the host that has a
\* custom fetcher
Urls == {"https://www.msn.com/a", "https://example.com/a"}

\* urlparse(url).netloc
netloc(url) == IF url = "https://www.msn.com/a" THEN "www.msn.com" ELSE "example.com"

Hosts == {netloc(u) : u \in Urls}

\* WebContentFetcher._initialize_domain_fetchers: hosts with a custom fetcher
domain_fetchers == {"www.msn.com"}

\* statuses a fetch stage can return
Statuses == {200, 403, 408, 500}

\* outcomes of requests.get against the news API: a status, or no response at
\* all (connection error), written 0
NoResponse == 0
ApiOutcomes == {200, RateLimitStatus, 500, NoResponse}

\* all sequences over S of length 0..n
RECURSIVE SeqsUpTo(_, _)
SeqsUpTo(S, n) ==
    IF n = 0 THEN {<<>>}
    ELSE LET shorter == SeqsUpTo(S, n - 1)
         IN  shorter \cup {Append(s, x) : s \in {t \in shorter : Len(t) = n - 1}, x \in S}

\* ------------------------------------------------------------ RequestTracker
custom_method(host) == "custom_" \o host \o "_request"

Methods == {custom_method(h) : h \in domain_fetchers}
             \cup {"basic_request", "postman_request", "playwright_request", "all_methods_failed"}

\* RequestTracker.track_request: count of (method, status) grows by one; a
\* pair never tracked reads 0
track_request(tr, method, status) ==
    [tr EXCEPT ![<<method, status>>] = @ + 1]

\* no pair tracked at all
NoKey == <<>>

\* track_request applied to the pair a step produced, if it produced one
track(tr, key) == IF key = NoKey THEN tr ELSE track_request(tr, key[1], key[2])

\* Python's sum over the counts f holds for the keys in S
RECURSIVE SumOver(_, _)
SumOver(f, S) ==
    IF S = {} THEN 0
    ELSE LET k == CHOOSE x \in S : TRUE
         IN  f[k] + SumOver(f, S \ {k})

\* the keys of self._requests[method]: the statuses tracked for the method
\* (track_request creates a key with count 1, so a key is there exactly when
\* its count is positive), and the methods that have an entry
method_stats(tr, method) == {st \in Statuses : tr[<<method, st>>] > 0}

\* RequestTracker.get_total_requests: stats[200] for every method with an
\* entry, a KeyError when one has no 200 key
get_total_requests(tr) ==
    LET tracked == {m \in Methods : method_stats(tr, m) # {}}
    IN  IF \E m \in tracked : 200 \notin method_stats(tr, m)
        THEN [raised |-> TRUE, success |-> 0, failure |-> 0]
        ELSE [raised |-> FALSE,
              success |-> SumOver(tr, {<<m, 200>> : m \in tracked}),
              failure |-> SumOver(tr, {k \in DOMAIN tr : k[2] # 200})]

\* GlobeScraperTelemetry.log_request_summary: one line per method with an
\* entry, reading stats[200]; a KeyError at the first method without a 200
\* key (the lines logged before it are left out)
log_request_summary(tr) ==
    LET tracked == {m \in Methods : method_stats(tr, m) # {}}
    IN  IF \E m \in tracked : 200 \notin method_stats(tr, m)
        THEN [raised |-> TRUE, lines |-> <<>>]
        ELSE [raised |-> FALSE,
              lines |-> [m \in tracked |->
                            [success_count |-> tr[<<m, 200>>],
                             failure_count |-> SumOver(tr, {<<m, st>> : st \in Statuses \ {200}})]]]

\* ------------------------------------------------------------ ArticleCounter
\* ArticleCounter.track_build_attempt (the call ArticleBuilder.build makes on
\* telemetry.article_counter, where it is spelled track_scrape_attempt): total
\* and the host's outcome count grow by one
track_build_attempt(ac, url, success) ==
    [total |-> ac.total + 1,
     providers |-> [ac.providers EXCEPT ![netloc(url)][IF success THEN "successful" ELSE "failed"] = @ + 1]]

\* --------------------------------------------------------- WebContentFetcher
\* a stage that raised instead of returning a (status, body) pair
Raised == -1

\* what a stage can answer: _fetch_msn_com returns 200 or 500, or its browser
\* launch (outside its try block) raises; _fetch_with_requests and
\* _fetch_with_playwright catch everything and return a status.  Three input
\* sets: "full" lets every stage succeed or fail, "plain" is the site that
\* answers the first request or none, "lean" the site that answers the first
\* request
StageOutcomes(env, stage) ==
    CASE env = "lean" -> {200}
      [] stage = "custom" -> IF env = "full" THEN {200, 500, Raised} ELSE {200, 500}
      [] stage = "basic" -> {200, 403}
      [] stage = "postman" -> IF env = "full" THEN {200, 403} ELSE {403}
      [] OTHER -> IF env = "full" THEN {200, 408} ELSE {408}

\* fetch_content: the stage a call starts with
first_stage(url) == IF netloc(url) \in domain_fetchers THEN "custom" ELSE "basic"

\* next_stage with a custom fetcher whose failure falls through to the
\* generic chain
next_stage_custom_falls_through(stage, status) ==
    CASE stage = "custom" -> IF status = 200 THEN "return" ELSE "basic"
      [] stage = "basic" -> IF status = 200 THEN "return" ELSE "postman"
      [] stage = "postman" -> IF status = 200 THEN "return" ELSE "playwright"
      [] OTHER -> "return"

\* next_stage whose basic stage does not return on 200
next_stage_basic_goes_on(stage, status) ==
    CASE stage = "custom" -> "return"
      [] stage = "basic" -> "postman"
      [] stage = "postman" -> IF status = 200 THEN "return" ELSE "playwright"
      [] OTHER -> "return"

\* fetch_content: where the call goes after `stage` answered `status`;
\* "return" ends the call
next_stage(stage, status) ==
    CASE stage = "custom" -> "return"
      [] stage = "basic" -> IF status = 200 THEN "return" ELSE "postman"
      [] stage = "postman" -> IF status = 200 THEN "return" ELSE "playwright"
      [] OTHER -> "return"

\* tracked_key that also tracks the basic and postman stages' failures
tracked_key_every_stage(stage, host, status) ==
    CASE stage = "custom" -> <<custom_method(host), status>>
      [] stage = "basic" -> <<"basic_request", status>>
      [] stage = "postman" -> <<"postman_request", status>>
      [] OTHER -> IF status = 200 THEN <<"playwright_request", 200>>
                  ELSE <<"all_methods_failed", status>>

\* tracked_key that files every exhausted chain under status 500
tracked_key_fixed_status(stage, host, status) ==
    CASE stage = "custom" -> <<custom_method(host), status>>
      [] stage = "basic" -> IF status = 200 THEN <<"basic_request", 200>> ELSE NoKey
      [] stage = "postman" -> IF status = 200 THEN <<"postman_request", 200>> ELSE NoKey
      [] OTHER -> IF status = 200 THEN <<"playwright_request", 200>>
                  ELSE <<"all_methods_failed", 500>>

\* fetch_content: the (method, status) pair the call tracks after `stage`
\* answered `status`
tracked_key(stage, host, status) ==
    CASE stage = "custom" -> <<custom_method(host), status>>
      [] stage = "basic" -> IF status = 200 THEN <<"basic_request", 200>> ELSE NoKey
      [] stage = "postman" -> IF status = 200 THEN <<"postman_request", 200>> ELSE NoKey
      [] OTHER -> IF status = 200 THEN <<"playwright_request", 200>>
                  ELSE <<"all_methods_failed", status>>

\* fetch_content: the stage whose body is returned, None when the call
\* returns nothing
fetch_result(stage, status) == IF status = 200 THEN stage ELSE None

\* the runs of fetch_content from `stage` on: every sequence of
\* <<stage, status>> steps the code can take, at most `fuel` steps long
RECURSIVE fetch_runs(_, _, _)
fetch_runs(env, stage, fuel) ==
    IF fuel = 0 THEN {<<>>}
    ELSE UNION {
           IF status = Raised \/ next_stage(stage, status) = "return"
           THEN {<< <<stage, status>> >>}
           ELSE {<< <<stage, status>> >> \o r : r \in fetch_runs(env, next_stage(stage, status), fuel - 1)}
           : status \in StageOutcomes(env, stage)}

\* the tracker after the track_request calls of one run of fetch_content
RECURSIVE track_run(_, _, _)
track_run(tr, host, run) ==
    IF run = <<>> THEN tr
    ELSE track_run(IF Head(run)[2] = Raised THEN tr
                   ELSE track(tr, tracked_key(Head(run)[1], host, Head(run)[2])),
                   host, Tail(run))

\* the last step of a run
Last(run) == run[Len(run)]

\* what fetch_content hands back at the end of `run`: the stage whose body it
\* is, None for nothing, and nothing either when the run ended by raising
fetch_return(run) ==
    IF run = <<>> \/ Last(run)[2] = Raised \/ next_stage(Last(run)[1], Last(run)[2]) # "return"
    THEN None
    ELSE fetch_result(Last(run)[1], Last(run)[2])

\* a run that ended with an exception leaving fetch_content
run_raised(run) == run # <<>> /\ Last(run)[2] = Raised

\* ------------------------------------------------- fetch stages, step by step
\* what the steps of one stage call can do: sync_playwright() starting the
\* driver, the launch, new_context, new_page, the navigation (a response with
\* a status, no response, TimeoutError, another error; for requests.get the
\* "none" case is a response without apparent encoding), reading the page
\* (page.content, or the selector waits and page.evaluate), and the close
\* calls
StepOutcomes ==
    [enter : {"ok", "error"}, launch : {"ok", "error"}, new_context : {"ok", "error"},
     new_page : {"ok", "error"}, goto : {"response", "none", "timeout", "error"},
     status : {200, 404}, read : {"ok", "error"},
     context_close : {"ok", "error"}, browser_close : {"ok", "error"}]

\* with_exit under which the browsers outlive the driver
with_exit_keeps(open) == open

\* leaving `with sync_playwright() as p`: the driver is stopped, which ends
\* every browser it launched, with its contexts
with_exit(open) == {}

\* WebContentFetcher._fetch_with_requests: everything inside one try block
fetch_with_requests(e) ==
    [ret |-> IF e.goto = "response" THEN e.status ELSE 500, open |-> {}, entered |-> FALSE]

\* WebContentFetcher._fetch_with_playwright: the with block inside one try
\* block, browser.close() on the two return paths only
fetch_with_playwright(e) ==
    CASE e.enter = "error" -> [ret |-> 500, open |-> {}, entered |-> FALSE]
      [] e.enter = "ok" /\ e.launch = "error" ->
           [ret |-> 500, open |-> with_exit({}), entered |-> TRUE]
      [] e.enter = "ok" /\ e.launch = "ok" /\ (e.new_page = "error" \/ e.goto \in {"timeout", "error"}) ->
           [ret |-> 500, open |-> with_exit({"browser"}), entered |-> TRUE]
      [] OTHER ->
           LET non200 == e.goto = "response" /\ e.status # 200
               read_raises == ~non200 /\ e.read = "error"
               closed == ~read_raises /\ e.browser_close = "ok"
           IN  [ret |-> IF read_raises \/ e.browser_close = "error" THEN 500
                        ELSE IF non200 THEN e.status ELSE 200,
                open |-> with_exit(IF closed THEN {} ELSE {"browser"}),
                entered |-> TRUE]

\* WebContentFetcher._fetch_msn_com: the with block, launch, new_context and
\* new_page outside the try block; inside it the navigation, the waits and
\* the evaluation, then context.close() and browser.close(); the except
\* branch makes the two close calls again and returns 500
fetch_msn_com(e) ==
    CASE e.enter = "error" -> [ret |-> Raised, open |-> {}, entered |-> FALSE]
      [] e.enter = "ok" /\ e.launch = "error" ->
           [ret |-> Raised, open |-> with_exit({}), entered |-> TRUE]
      [] e.enter = "ok" /\ e.launch = "ok" /\ e.new_context = "error" ->
           [ret |-> Raised, open |-> with_exit({"browser"}), entered |-> TRUE]
      [] e.enter = "ok" /\ e.launch = "ok" /\ e.new_context = "ok" /\ e.new_page = "error" ->
           [ret |-> Raised, open |-> with_exit({"browser", "context"}), entered |-> TRUE]
      [] OTHER ->
           LET try_raises == e.goto \in {"timeout", "error"} \/ e.read = "error"
               left == (IF e.context_close = "ok" THEN {} ELSE {"context"})
                         \cup (IF e.context_close = "ok" /\ e.browser_close = "ok"
                               THEN {} ELSE {"browser"})
           IN  [ret |-> IF e.context_close = "error" \/ e.browser_close = "error" THEN Raised
                        ELSE IF try_raises THEN 500 ELSE 200,
                open |-> with_exit(left),
                entered |-> TRUE]

\* the stage functions by name
stage_call(stage, e) ==
    CASE stage = "custom" -> fetch_msn_com(e)
      [] stage = "playwright" -> fetch_with_playwright(e)
      [] OTHER -> fetch_with_requests(e)

\* ------------------------------------------------------------ BingNewsSource
\* truth value of e.response in `if e.response and ...`: a missing response is
\* None, and a requests.Response is truthy exactly when its status is not an
\* error status
response_bool(outcome) == outcome # NoResponse /\ outcome < 400

\* BingNewsSource._make_request: the exception the call ends with, "none"
\* when it returns the JSON body
make_request(outcome) ==
    IF outcome = 200 THEN "none"
    ELSE IF response_bool(outcome) /\ outcome = RateLimitStatus THEN "BingNewsRateLimitError"
    ELSE "BingNewsError"

\* retry_decision that retries every error and never stops
retry_decision_any_error(exc, att) ==
    IF exc = "none" THEN "return" ELSE "retry"

\* the @retry decorator of get_country_trending_news: retry only
\* BingNewsRateLimitError, stop after StopAfterAttempt attempts (tenacity then
\* raises its RetryError, reraise not being set), re-raise anything else
retry_decision(exc, att) ==
    IF exc = "none" THEN "return"
    ELSE IF exc = "BingNewsRateLimitError"
         THEN IF att >= StopAfterAttempt THEN "RetryError" ELSE "retry"
    ELSE "reraise"

\* class hierarchy below NewsSourceError
IsNewsSourceError(e) == e \in {"NewsSourceError", "BingNewsError", "BingNewsRateLimitError"}

\* keys of an article of the API's response that the required fields of
\* NewsSourceArticleData are read from
RequiredKeys == {"name", "url", "description", "datePublished"}

\* articles the API can send: a url and the keys that are present
RawArticles == [url : Urls, keys : SUBSET RequiredKeys]

\* an article with every required key
well_formed(a) == a.keys = RequiredKeys

\* articles the API sends during a pipeline run: complete ones, and ones
\* without a datePublished
ArticlesSent ==
    {a \in RawArticles : RequiredKeys \ {"datePublished"} \subseteq a.keys}

\* the NewsSourceArticleData(...) call of _process_news_response for one
\* article: a missing name or url becomes '' (a str, accepted), a missing
\* description is None (rejected by the model, which wants a str), and
\* datetime.fromisoformat of a missing datePublished raises
article_data(a) ==
    [raised |-> ~({"description", "datePublished"} \subseteq a.keys),
     item |-> [title |-> IF "name" \in a.keys THEN "name" ELSE "",
               url |-> IF "url" \in a.keys THEN a.url ELSE ""]]

\* BingNewsSource._process_news_response: the list comprehension inside one
\* try block; an exception for any article leaves as BingNewsError
process_news_response(value) ==
    IF \E i \in DOMAIN value : article_data(value[i]).raised
    THEN [raised |-> TRUE, items |-> <<>>]
    ELSE [raised |-> FALSE, items |-> [i \in DOMAIN value |-> article_data(value[i]).item]]

\* --------------------------------------------------------------- MongoHandler
\* does_article_exist that sees only the documents stored before the run
\* (their id is 0)
does_article_exist_before_run(st, url) == \E d \in st : d.url = url /\ d.id = 0

\* MongoHandler.does_article_exist
does_article_exist(st, url) == \E d \in st : d.url = url

\* details document of the driver's BulkWriteError: the write errors (here the
\* rejected indices) and the nInserted count; the driver reports the other
\* counters as well, none of them under the key insertedIds
bulk_write_details(rejected, ninserted) ==
    [writeErrors |-> rejected, nInserted |-> ninserted]

\* bwe.details.get(key, default)
details_get(details, key, default) ==
    IF key \in DOMAIN details THEN details[key] ELSE default

\* the ways insert_many(docs, ordered=False) can end for n documents
\* (for an empty list of documents the driver raises at once)
InsertOutcomes(n) ==
    IF n = 0 THEN {[kind |-> "Exception", rejected |-> {}]}
    ELSE {[kind |-> "ok", rejected |-> {}]}
           \cup {[kind |-> "BulkWriteError", rejected |-> R] : R \in (SUBSET (1..n)) \ {{}}}
           \cup {[kind |-> "ExecutionTimeout", rejected |-> {}], [kind |-> "Exception", rejected |-> {}]}

\* indices of `idx` in increasing order
RECURSIVE SortedSeq(_)
SortedSeq(idx) ==
    IF idx = {} THEN <<>>
    ELSE LET m == CHOOSE x \in idx : \A y \in idx : x <= y
         IN  <<m>> \o SortedSeq(idx \ {m})

\* insert_many_called that hands every list, the empty one too, to the driver
insert_many_called_always(n) == TRUE

\* insert_bulk_articles: `if serialized_articles:` guards the call of
\* insert_many
insert_many_called(n) == n # 0

\* insert_log whose except branches and summary write warnings only
insert_log_warnings_only(called, kind, ids, errors) ==
    IF ~called THEN {"debug"}
    ELSE IF kind = "ok" /\ Len(errors) = 0 THEN {"info"} ELSE {"warning"}

\* levels of the log lines insert_bulk_articles writes
insert_log(called, kind, ids, errors) ==
    IF ~called THEN {"debug"}
    ELSE (IF kind = "ok" THEN {} ELSE {"error"})
           \cup (IF Len(ids) = 0 THEN {"error"}
                 ELSE IF Len(errors) # 0 THEN {"warning"} ELSE {"info"})

\* MongoHandler.insert_bulk_articles: ids and errors returned (ids, errors),
\* levels logged (log), documents the store gained (docs) and their ids in
\* batch order (written)
insert_bulk_articles(articles, outcome, next) ==
    LET n == Len(articles)
        called == insert_many_called(n)
        accepted == IF ~called THEN {}
                    ELSE IF outcome.kind = "ok" THEN 1..n
                    ELSE IF outcome.kind = "BulkWriteError" THEN (1..n) \ outcome.rejected
                    ELSE {}
        acc == SortedSeq(accepted)
        newdocs == {[id |-> next + j - 1, url |-> articles[acc[j]].url] : j \in 1..Len(acc)}
        newids == [j \in 1..Len(acc) |-> next + j - 1]
        details == bulk_write_details(SortedSeq(outcome.rejected), Len(acc))
        ids == CASE ~called -> <<>>
                 [] outcome.kind = "ok" -> newids
                 [] outcome.kind = "BulkWriteError" -> details_get(details, "insertedIds", <<>>)
                 [] OTHER -> <<>>
        errors == CASE ~called -> <<>>
                    [] outcome.kind = "ok" -> <<>>
                    [] outcome.kind = "BulkWriteError" ->
                         [j \in 1..Len(details.writeErrors) |->
                             [index |-> details.writeErrors[j],
                              url |-> articles[details.writeErrors[j]].url,
                              error |-> "errmsg"]]
                    [] outcome.kind = "ExecutionTimeout" ->
                         <<[error |-> "Operation timed out"]>>
                    [] OTHER -> <<[error |-> "str(e)"]>>
    IN  [ids |-> ids, errors |-> errors, log |-> insert_log(called, outcome.kind, ids, errors),
         called |-> called, kind |-> IF called THEN outcome.kind ELSE "none",
         rejected |-> IF called THEN outcome.rejected ELSE {},
         docs |-> newdocs, written |-> newids]

\* documents of `st` that share their url with another document
duplicate_urls(st) == {d \in st : \E e \in st : e # d /\ e.url = d.url}

\* Collection.create_index("url", unique=True), whose default name is url_1:
\* nothing to do when the index is there, DuplicateKeyError when the documents
\* already break it
create_index(st, idx) ==
    IF "url_1" \in idx THEN [raised |-> FALSE, indexes |-> idx]
    ELSE IF duplicate_urls(st) # {} THEN [raised |-> TRUE, indexes |-> idx]
    ELSE [raised |-> FALSE, indexes |-> idx \cup {"url_1"}]

\* Collection.drop_index("url_1"): OperationFailure when there is no such index
drop_index(idx) ==
    IF "url_1" \in idx THEN [raised |-> FALSE, indexes |-> idx \ {"url_1"}]
    ELSE [raised |-> TRUE, indexes |-> idx]

\* MongoHandler._check_permissions, its last two statements: the index on url
\* is created and then dropped by name
check_permissions(st, idx) ==
    LET created == create_index(st, idx)
    IN  IF created.raised THEN created ELSE drop_index(created.indexes)

\* MongoHandler.initialize_database, the url_1 entry of its index list
initialize_database(st, idx) == create_index(st, idx)

\* MongoHandler.__init__: ping (answered "ok" or the store is "unreachable"),
\* existence checks, _check_permissions; any failure leaves as
\* MongoHandlerError
MongoHandler_init(st, idx, ping) ==
    IF ping # "ok" THEN [raised |-> TRUE, indexes |-> idx]
    ELSE check_permissions(st, idx)

\* insert_many under the unique index url_1: the documents accepted repeat no
\* url, neither of the store nor of each other; without the index every
\* outcome is possible
insert_many_admits(st, idx, articles, outcome) ==
    ("url_1" \in idx /\ outcome.kind \in {"ok", "BulkWriteError"}) =>
        LET accepted == (1..Len(articles)) \ outcome.rejected
        IN  \A i \in accepted :
               /\ ~does_article_exist(st, articles[i].url)
               /\ \A j \in accepted : i # j => articles[i].url # articles[j].url

\* ------------------------------------------------------------ ContentValidator
\* Text is a sequence of tokens, each standing for the characters it spells.
\* Tokens of the article bodies fed in: the pieces the blocked patterns are
\* made of, a letter, a backslash, the line ends, the fullwidth dollar sign
\* U+FF04 (whose NFKC form is "$"), and the zero-width space U+200B (which is
\* its own NFKC form)
ContentTokens ==
    {"<script", "</script>", "<iframe", "</iframe>", ">", "'", "\"", "\\", "$", "a",
     "U+FF04", "U+200B", "\n", "\r"}

\* number of characters a token spells
chars(t) ==
    CASE t \in {"<script", "<iframe"} -> 7
      [] t \in {"</script>", "</iframe>"} -> 9
      [] t \in {"&lt;script", "&lt;iframe"} -> 10
      [] t \in {"&lt;/script&gt;", "&lt;/iframe&gt;"} -> 15
      [] t = "&gt;" -> 4
      [] t = "&amp;" -> 5
      [] t \in {"&#x27;", "&quot;"} -> 6
      [] OTHER -> 1

\* len(content)
RECURSIVE len(_)
len(s) == IF s = <<>> THEN 0 ELSE chars(Head(s)) + len(Tail(s))

\* Config.MIN_CONTENT_LENGTH and Config.MAX_CONTENT_LENGTH, scaled to the
\* bounded texts
MIN_CONTENT_LENGTH == 5
MAX_CONTENT_LENGTH == 12

\* ContentValidator._blocked_patterns, in the configured order
blocked_patterns == <<"script", "iframe", "single_quote", "double_quote", "mongo_operator">>

\* the token ends with the character ">"
ends_gt(t) == t \in {">", "</script>", "</iframe>"}

\* the token starts with the character "<"
starts_lt(t) == t \in {"<script", "</script>", "<iframe", "</iframe>"}

\* least index j in from..Len(s) with s[j] in T, 0 when there is none
first_in(s, from, T) ==
    LET I == {j \in from..Len(s) : s[j] \in T}
    IN  IF I = {} THEN 0 ELSE CHOOSE j \in I : \A k \in I : j <= k

\* <open.*?>.*?</close> matched at position i: the open tag runs lazily to
\* the first ">", the block to the first closing tag after it; the index of
\* the match's last token, 0 for no match at i
block_end(s, i, open, close) ==
    IF s[i] # open THEN 0
    ELSE LET j == first_in(s, i + 1, {t \in ContentTokens : ends_gt(t)})
         IN  IF j = 0 THEN 0 ELSE first_in(s, j + 1, {close})

\* (?<!\\)q.*?(?<!\\)q matched at position i: a quote not preceded by a
\* backslash, lazily up to the next quote not preceded by a backslash
quote_end(s, i, q) ==
    IF s[i] # q \/ (i > 1 /\ s[i - 1] = "\\") THEN 0
    ELSE LET I == {k \in (i + 1)..Len(s) : s[k] = q /\ s[k - 1] # "\\"}
         IN  IF I = {} THEN 0 ELSE CHOOSE k \in I : \A m \in I : k <= m

\* \$[a-zA-Z_][a-zA-Z0-9_]* matched at position i: "$", a letter, and
\* greedily the identifier characters that follow
operator_end(s, i) ==
    IF s[i] # "$" \/ i = Len(s) \/ s[i + 1] # "a" THEN 0
    ELSE CHOOSE k \in (i + 1)..Len(s) :
             /\ \A m \in (i + 1)..k : s[m] = "a"
             /\ (k = Len(s) \/ s[k + 1] # "a")

\* <[^>]+> matched at position i: from a "<" to the first ">" after it
tag_end(s, i) ==
    IF ~starts_lt(s[i]) THEN 0
    ELSE IF ends_gt(s[i]) THEN i
    ELSE first_in(s, i + 1, {t \in ContentTokens : ends_gt(t)})

\* the match of `pattern` that starts at position i of s: index of its last
\* token, 0 when the pattern does not match there
match_end(pattern, s, i) ==
    CASE pattern = "script" -> block_end(s, i, "<script", "</script>")
      [] pattern = "iframe" -> block_end(s, i, "<iframe", "</iframe>")
      [] pattern = "single_quote" -> quote_end(s, i, "'")
      [] pattern = "double_quote" -> quote_end(s, i, "\"")
      [] pattern = "mongo_operator" -> operator_end(s, i)
      [] OTHER -> tag_end(s, i)

\* re.search(pattern, content, re.IGNORECASE | re.DOTALL) finds a match
re_search(pattern, s) == \E i \in 1..Len(s) : match_end(pattern, s, i) # 0

\* re.sub(pattern, '', content): the leftmost matches, none overlapping,
\* deleted in one pass over s from position i on
RECURSIVE re_sub_from(_, _, _)
re_sub_from(pattern, s, i) ==
    IF i > Len(s) THEN <<>>
    ELSE LET e == match_end(pattern, s, i)
         IN  IF e # 0 THEN re_sub_from(pattern, s, e + 1)
             ELSE <<s[i]>> \o re_sub_from(pattern, s, i + 1)

re_sub(pattern, s) == re_sub_from(pattern, s, 1)

\* the length check of validate: at most one issue
length_issues(s) ==
    IF MAX_CONTENT_LENGTH < len(s) THEN <<"exceeds_max">>
    ELSE IF len(s) < MIN_CONTENT_LENGTH THEN <<"below_min">>
    ELSE <<>>

\* the loop of validate over the blocked patterns from the k-th on: one issue,
\* named after the pattern, for every pattern found in s
RECURSIVE pattern_issues(_, _)
pattern_issues(s, k) ==
    IF k > Len(blocked_patterns) THEN <<>>
    ELSE (IF re_search(blocked_patterns[k], s) THEN <<blocked_patterns[k]>> ELSE <<>>)
             \o pattern_issues(s, k + 1)

\* validate that appends the length issue after the pattern issues
validate_length_last(s) ==
    LET issues == pattern_issues(s, 1) \o length_issues(s)
    IN  [ok |-> Len(issues) = 0, issues |-> issues]

\* ContentValidator.validate: (len(issues) == 0, issues)
validate(s) ==
    LET issues == length_issues(s) \o pattern_issues(s, 1)
    IN  [ok |-> Len(issues) = 0, issues |-> issues]

\* the first loop of sanitize: the blocked patterns from the k-th on deleted
\* one after the other
RECURSIVE remove_blocked(_, _)
remove_blocked(s, k) ==
    IF k > Len(blocked_patterns) THEN s
    ELSE remove_blocked(re_sub(blocked_patterns[k], s), k + 1)

\* content.replace('\r\n', '\n')
RECURSIVE replace_crlf(_)
replace_crlf(s) ==
    IF s = <<>> THEN <<>>
    ELSE IF Len(s) >= 2 /\ s[1] = "\r" /\ s[2] = "\n" THEN <<"\n">> \o replace_crlf(Tail(Tail(s)))
    ELSE <<Head(s)>> \o replace_crlf(Tail(s))

\* content.replace('\r', '\n')
replace_cr(s) == [i \in 1..Len(s) |-> IF s[i] = "\r" THEN "\n" ELSE s[i]]

\* re.sub(r'\n{2,}', '\n', content)
RECURSIVE collapse_newlines(_)
collapse_newlines(s) ==
    IF s = <<>> THEN <<>>
    ELSE IF Len(s) >= 2 /\ s[1] = "\n" /\ s[2] = "\n" THEN collapse_newlines(Tail(s))
    ELSE <<Head(s)>> \o collapse_newlines(Tail(s))

\* html.escape(content, quote=True) on the characters of one token
escape(t) ==
    CASE t = ">" -> "&gt;"
      [] t = "'" -> "&#x27;"
      [] t = "\"" -> "&quot;"
      [] t = "&" -> "&amp;"
      [] t = "<script" -> "&lt;script"
      [] t = "<iframe" -> "&lt;iframe"
      [] t = "</script>" -> "&lt;/script&gt;"
      [] t = "</iframe>" -> "&lt;/iframe&gt;"
      [] OTHER -> t

html_escape(s) == [i \in 1..Len(s) |-> escape(s[i])]

\* unicodedata.normalize('NFKC', content): the fullwidth dollar sign becomes
\* "$", the other tokens, the zero-width space among them, are their own
\* NFKC form
normalize_nfkc(s) == [i \in 1..Len(s) |-> IF s[i] = "U+FF04" THEN "$" ELSE s[i]]

\* ContentValidator.sanitize
sanitize(s) ==
    LET unblocked == remove_blocked(s, 1)
        untagged == re_sub("tag", unblocked)
        newlines == collapse_newlines(replace_cr(replace_crlf(untagged)))
    IN  normalize_nfkc(html_escape(newlines))

\* build_from_extracted that composes the article without looking at the
\* result of validate
build_from_extracted_unvalidated(cleaned_text) ==
    LET text == sanitize(cleaned_text)
    IN  [text |-> text, issues |-> validate(text).issues, content |-> <<text>>]

\* ArticleBuilder.build from the extracted data on: sanitize the body,
\* validate the sanitized body, and compose the article with it; content is
\* <<the article's content>>, <<>> when build returns None
build_from_extracted(cleaned_text) ==
    LET text == sanitize(cleaned_text)
        v == validate(text)
    IN  [text |-> text, issues |-> v.issues,
         content |-> IF v.ok THEN <<text>> ELSE <<>>]

\* ---------------------------------------------------------- ArticleBuilder
\* py_or that prefers its second operand
py_or_second(a, b) == IF b \notin {None, ""} THEN b ELSE a

\* Python's `a or b` on optional strings: a unless it is None or ''
py_or(a, b) == IF a \notin {None, ""} THEN a ELSE b

\* ArticleBuilder._create_globe_article: the keyword arguments handed to
\* GlobeArticle (date_scraped, the clock's reading, left out)
create_globe_article(extracted_data, news_source_data) ==
    [title |-> news_source_data.title,
     url |-> news_source_data.url,
     description |-> news_source_data.description,
     date_published |-> news_source_data.date_published,
     provider |-> news_source_data.provider,
     content |-> extracted_data.cleaned_text,
     keywords |-> <<extracted_data.meta_keywords>>,
     authors |-> extracted_data.authors,
     origin_country |-> news_source_data.origin_country,
     image_url |-> py_or(news_source_data.image_url, extracted_data.top_image),
     source_api |-> news_source_data.source_api,
     language |-> py_or(news_source_data.language, extracted_data.meta_lang)]

\* items a news source hands over and contents the extractor hands over
NewsSourceArticleData ==
    [title : {"Title A", "Title B"}, url : Urls, description : {"description"},
     date_published : {"2024-07-01T10:00:00+00:00"}, provider : {"provider"},
     origin_country : {"DE", "FR"}, image_url : {None, "https://example.com/item.jpg"},
     language : {None, "de"}, source_api : {"BingNewsSource"}]

ArticleData ==
    [cleaned_text : {"body"}, meta_lang : {None, "es"}, meta_keywords : {"", "test, article"},
     authors : {<<"Author">>}, top_image : {None, "https://example.com/top.jpg"}]

\* ---------------------------------------------------------------------- state
VARIABLES
    store,          \* documents of the articles collection: records [id, url]
    nextId,         \* next _id the store hands out
    market,         \* index into available_countries of the market in progress
    pc,             \* position of run_pipeline: "next", "trending", "build", "done" (returned),
                    \* "raised" (left by an exception), "none" (no run in progress)
    attempt,        \* tenacity's attempt number inside get_country_trending_news
    apiLog,         \* per market: outcomes of the requests issued to the news API
    trendingCalls,  \* per market: calls of get_country_trending_news by the pipeline
    srcErr,         \* per market: class of the error that left the news source
    trending_news,  \* items (urls) discovered for the market in progress
    tasks,          \* per item: the worker task running _build_article
    completed,      \* task indices in completion order (as_completed)
    tracker,        \* RequestTracker._requests
    article_counter,\* ArticleCounter
    all_articles,   \* run_pipeline's result list
    marketLog,      \* per market: "none", "complete" or "failed" as logged
    attempted,      \* markets for which _process_country was entered, in order
    inserted,       \* ids of the documents the store inserted in this run, in order
    batch,          \* <<articles handed to the bulk insert>> for the current tasks, <<>> before it
    insert_ret,     \* <<what insert_bulk_articles returned for batch>>, <<>> before it
    stats,          \* <<the "Country processing statistics" line of the market>>, <<>> if not logged
    content_call,   \* a call of the ContentValidator or of the builder on one extracted text
    threads,        \* worker threads inside a telemetry update: position, key, value read
    calls,          \* per counter: the telemetry updates the worker threads have completed
    indexes,        \* names of the indexes of the articles collection
    main_pc,        \* position of main(): "start", "run_now" (about to make the initial
                    \* scrape), "loop" (waiting for the next run), "scrape" (inside
                    \* scrape_news), "exited"
    exit_code,      \* <<exit status of the process>>, <<>> while it runs
    runs,           \* calls of scrape_news made by main()
    discover_call,  \* a call of _process_news_response on one response of the news API
    article_call,   \* a call of _create_globe_article on one item and one extracted content
    fetch_call      \* a call of one fetch stage with the outcomes of its steps

vars == <<store, nextId, market, pc, attempt, apiLog, trendingCalls, srcErr,
          trending_news, tasks, completed, tracker, article_counter, all_articles,
          marketLog, attempted, inserted, batch, insert_ret, stats,
          content_call, threads, calls, indexes, main_pc, exit_code, runs,
          discover_call,
          article_call,
          fetch_call>>

\* state of the store's indexes and of main() around a pipeline run
mainVars == <<indexes, main_pc, exit_code, runs>>

\* state of the single calls of the news source, the builder and the fetcher
callVars == <<discover_call, article_call, fetch_call>>

\* state of the calls made outside a pipeline run
harnessVars == <<content_call, threads, calls, callVars>>

Markets == 1..NumMarkets

\* a task as submitted to the executor
NewTask == [pc |-> "pending", stagelog |-> <<>>, fetched |-> None,
            existed |-> FALSE, built |-> FALSE, result |-> <<>>]

\* ids of documents present before the run
OldId == 0

\* no call of the validator or the builder's text steps made
NoCall == [op |-> "none", s |-> <<>>, text |-> <<>>, ok |-> FALSE, issues |-> <<>>,
           content |-> <<>>]

\* no call of _process_news_response made
NoDiscover == [op |-> "none", value |-> <<>>, raised |-> FALSE, items |-> <<>>]

\* no call of _create_globe_article made
NoArticleCall == [op |-> "none", item |-> <<>>, extracted |-> <<>>, article |-> <<>>]

\* no call of a fetch stage made
NoFetchCall == [op |-> "none", stage |-> "none", e |-> <<>>, ret |-> <<>>, open |-> {}]

\* worker threads of the executor that update telemetry at the same time
Threads == 1..NumThreads

\* the counters they update: two (method, status) pairs of the RequestTracker,
\* and of the ArticleCounter the total and one host's "failed" count
Counters == {"basic_request:200", "all_methods_failed:408", "total", "example.com:failed"}

\* a thread outside any telemetry update
IdleThread == [pc |-> "idle", todo |-> <<>>, read |-> 0, made |-> 0]

\* the adapter constructed by the first scrape_news of main(): its permission
\* check has dropped url_1
Constructed ==
    /\ indexes = {}
    /\ main_pc = "scrape"
    /\ exit_code = <<>>
    /\ runs = 1

Init ==
    /\ \E pre \in {{}} \cup {{u} : u \in Urls} :
           store = {[id |-> OldId, url |-> u] : u \in pre}
    /\ nextId = 1
    /\ market = 1
    /\ pc = "next"
    /\ attempt = 0
    /\ apiLog = [m \in Markets |-> <<>>]
    /\ trendingCalls = [m \in Markets |-> 0]
    /\ srcErr = [m \in Markets |-> "none"]
    /\ trending_news = <<>>
    /\ tasks = <<>>
    /\ completed = <<>>
    /\ tracker = [key \in Methods \X Statuses |-> 0]
    /\ article_counter = [total |-> 0,
                          providers |-> [h \in Hosts |-> [failed |-> 0, successful |-> 0]]]
    /\ all_articles = <<>>
    /\ marketLog = [m \in Markets |-> "none"]
    /\ attempted = <<>>
    /\ inserted = <<>>
    /\ batch = <<>>
    /\ insert_ret = <<>>
    /\ stats = <<>>
    /\ content_call = NoCall
    /\ threads = [t \in Threads |-> IdleThread]
    /\ calls = [c \in Counters |-> 0]
    /\ fetch_call = NoFetchCall
    /\ article_call = NoArticleCall
    /\ discover_call = NoDiscover
    /\ Constructed

\* ----------------------------------------------------------------- pipeline
\* the market run_pipeline turns to after market m
next_market(m) == m + 1

\* run_pipeline_catches for an except clause naming NewsSourceError only
run_pipeline_catches_source_errors(e) ==
    e \in {"BingNewsError", "BingNewsRateLimitError"}

\* run_pipeline's `except Exception` around _process_country: the error
\* classes it catches
run_pipeline_catches(e) ==
    e \in {"BingNewsError", "BingNewsRateLimitError", "RetryError", "ZeroDivisionError"}

\* run_pipeline: loop body entered for the next market; _process_country
\* calls news_source.get_country_trending_news(mkt=...)
process_country ==
    /\ pc = "next"
    /\ market <= NumMarkets
    /\ attempted' = Append(attempted, market)
    /\ trendingCalls' = [trendingCalls EXCEPT ![market] = @ + 1]
    /\ attempt' = 1
    /\ pc' = "trending"
    /\ UNCHANGED <<insert_ret, stats, mainVars, harnessVars>>
    /\ UNCHANGED <<store, nextId, market, apiLog, srcErr, trending_news, tasks, completed,
                   tracker, article_counter, all_articles, marketLog, inserted, batch>>

\* one attempt of get_country_trending_news under its retry decorator: the
\* request and _process_news_response, then return the items, retry, or let
\* the error reach
\* run_pipeline's except branch (market logged as failed, loop continues)
get_country_trending_news ==
    /\ pc = "trending"
    /\ Len(apiLog[market]) < MaxRequests
    /\ \E outcome \in ApiOutcomes :
       \E value \in (IF outcome = 200 THEN SeqsUpTo(ArticlesSent, MaxItems) ELSE {<<>>}) :
          LET processed == process_news_response(value)
              items == [i \in DOMAIN processed.items |-> processed.items[i].url]
              exc == IF make_request(outcome) = "none" /\ processed.raised
                     THEN "BingNewsError" ELSE make_request(outcome)
              decision == retry_decision(exc, attempt)
              failed == decision \in {"reraise", "RetryError"}
              err == IF decision = "reraise" THEN exc ELSE "RetryError"
          IN  /\ apiLog' = [apiLog EXCEPT ![market] = Append(@, outcome)]
              /\ attempt' = IF decision = "retry" THEN attempt + 1 ELSE attempt
              /\ pc' = CASE decision = "return" -> "build"
                         [] decision = "retry" -> "trending"
                         [] OTHER -> IF run_pipeline_catches(err) THEN "next" ELSE "raised"
              /\ trending_news' = IF decision = "return" THEN items ELSE trending_news
              /\ tasks' = IF decision = "return" THEN [i \in 1..Len(items) |-> NewTask] ELSE tasks
              /\ completed' = IF decision = "return" THEN <<>> ELSE completed
              /\ batch' = IF decision = "return" THEN <<>> ELSE batch
              /\ insert_ret' = IF decision = "return" THEN <<>> ELSE insert_ret
              /\ stats' = IF decision = "return" THEN <<>> ELSE stats
              /\ srcErr' = IF failed THEN [srcErr EXCEPT ![market] = err] ELSE srcErr
              /\ marketLog' = IF failed /\ run_pipeline_catches(err)
                              THEN [marketLog EXCEPT ![market] = "failed"]
                              ELSE marketLog
              /\ market' = IF failed /\ run_pipeline_catches(err)
                           THEN next_market(market) ELSE market
    /\ UNCHANGED <<mainVars, harnessVars>>
    /\ UNCHANGED <<store, nextId, trendingCalls, tracker, article_counter, all_articles,
                   attempted, inserted>>

\* ------------------------------------------------------------- worker tasks
\* the article ArticleBuilder.build composes for item i
Article(i) == [url |-> trending_news[i], item |-> i]

\* tasks a worker thread of the pool is executing
Running == {i \in DOMAIN tasks : tasks[i].pc = "running"}

\* outcomes of the part of ArticleBuilder.build that follows the fetch: the
\* extractor raises, validation fails, composition fails, or an article is
\* returned ("plain" input set: the first or the last; "lean": the last)
BuildOutcomes(env) ==
    CASE env = "full" -> {"ok", "extract_raises", "invalid", "compose_error"}
      [] env = "lean" -> {"ok"}
      [] OTHER -> {"ok", "extract_raises"}

\* after_exists_check without the early return: build runs for a stored url
after_exists_check_no_return(exists) == "running"

\* _build_article after the existence check: "done" returns None at once,
\* "running" goes on to ArticleBuilder.build
after_exists_check(exists) == IF exists THEN "done" ELSE "running"

\* worker_free for a pool without a limit
worker_free_always(running) == TRUE

\* ThreadPoolExecutor(max_workers=MAX_SCRAPING_WORKERS): a submitted task
\* starts only while fewer than max_workers tasks are running
worker_free(running) == Cardinality(running) < MAX_SCRAPING_WORKERS

\* a worker takes item i off the executor's queue and starts _build_article:
\* the existence check, which ends the task when the url is already stored
build_article(i) ==
    /\ pc = "build"
    /\ i \in DOMAIN tasks
    /\ tasks[i].pc = "pending"
    /\ \A j \in 1..(i - 1) : tasks[j].pc # "pending"
    /\ worker_free(Running)
    /\ LET exists == does_article_exist(store, trending_news[i])
           to == after_exists_check(exists)
       IN  /\ tasks' = [tasks EXCEPT ![i] = [@ EXCEPT !.pc = to, !.existed = exists]]
           /\ completed' = IF to = "done" THEN Append(completed, i) ELSE completed
    /\ UNCHANGED <<insert_ret, stats, mainVars, harnessVars>>
    /\ UNCHANGED <<store, nextId, market, pc, attempt, apiLog, trendingCalls, srcErr,
                   trending_news, tracker, article_counter, all_articles, marketLog,
                   attempted, inserted, batch>>

\* ArticleBuilder.build for item i, called by _build_article: fetch_content,
\* then extraction, sanitize, validate and composition, with the recorded
\* build outcome; an exception leaving build ends in _build_article's except
\* branch, which returns None.  Each telemetry update is taken as one step
\* here; worker_read and worker_write take them apart
build_in(env, i) ==
    /\ pc = "build"
    /\ i \in DOMAIN tasks
    /\ tasks[i].pc = "running"
    /\ \E run \in fetch_runs(env, first_stage(trending_news[i]), MaxStages) :
       \E outcome \in (IF fetch_return(run) = None THEN {"no_content"} ELSE BuildOutcomes(env)) :
          LET url == trending_news[i]
              recorded == ~run_raised(run) /\ outcome # "extract_raises"
          IN  /\ tracker' = track_run(tracker, netloc(url), run)
              /\ article_counter' = IF recorded
                                    THEN track_build_attempt(article_counter, url, outcome = "ok")
                                    ELSE article_counter
              /\ tasks' = [tasks EXCEPT ![i] =
                              [@ EXCEPT !.pc = "done", !.built = TRUE, !.stagelog = run,
                                        !.fetched = fetch_return(run),
                                        !.result = IF outcome = "ok" THEN <<Article(i)>> ELSE <<>>]]
    /\ completed' = Append(completed, i)
    /\ UNCHANGED <<insert_ret, stats, mainVars, harnessVars>>
    /\ UNCHANGED <<store, nextId, market, pc, attempt, apiLog, trendingCalls, srcErr,
                   trending_news, all_articles, marketLog, attempted, inserted, batch>>

\* build against the "plain" input set
build_plain(i) == build_in("plain", i)

\* build against the "full" input set
build(i) == build_in("full", i)

\* build against the "lean" input set
build_lean(i) == build_in("lean", i)

\* built_articles that stops collecting at the first task without a result
RECURSIVE built_articles_until_failure(_, _)
built_articles_until_failure(ts, comp) ==
    IF comp = <<>> \/ ts[Head(comp)].result = <<>> THEN <<>>
    ELSE ts[Head(comp)].result \o built_articles_until_failure(ts, Tail(comp))

\* built_articles in the order of submission
built_articles_as_submitted(ts, comp) ==
    LET ok == SortedSeq({i \in DOMAIN ts : ts[i].result # <<>>})
    IN  [j \in DOMAIN ok |-> ts[ok[j]].result[1]]

\* _process_country: the non-None results in completion order
RECURSIVE built_articles(_, _)
built_articles(ts, comp) ==
    IF comp = <<>> THEN <<>>
    ELSE ts[Head(comp)].result \o built_articles(ts, Tail(comp))

\* bulk_insert_articles that hands every id back twice
bulk_insert_articles_twice(ret) == ret.ids \o ret.ids

\* NewsPipeline._bulk_insert_articles: the ids it returns, given what
\* insert_bulk_articles returned
bulk_insert_articles(ret) == ret.ids

\* _log_country_processing_stats divides by len(trending_news)
stats_raise(ntrending) == ntrending = 0

\* the f"{x:.2%}" rates of the statistics line, written to the whole percent
percent(part, whole) == ToString((100 * part) \div whole) \o "%"

\* _log_country_processing_stats: the line it logs
country_processing_stats(ntrending, nbuilt, ninserted) ==
    [total_trending_news |-> ntrending,
     articles_built |-> nbuilt,
     articles_inserted |-> ninserted,
     build_success_rate |-> percent(nbuilt, ntrending),
     insert_success_rate |-> IF nbuilt # 0 THEN percent(ninserted, nbuilt) ELSE "N/A"]

\* rest of _process_country once every future has completed: bulk insert,
\* statistics, and back in run_pipeline the result list is extended and the
\* market logged as complete, or the exception is logged as a failed market
process_country_finish ==
    /\ pc = "build"
    /\ \A i \in DOMAIN tasks : tasks[i].pc = "done"
    /\ LET built == built_articles(tasks, completed)
       IN  \E outcome \in InsertOutcomes(Len(built)) :
              LET ret == insert_bulk_articles(built, outcome, nextId)
                  inserted_articles == bulk_insert_articles(ret)
              IN  /\ insert_many_admits(store, indexes, built, outcome)
                  /\ store' = store \cup ret.docs
                  /\ nextId' = nextId + Len(ret.written)
                  /\ inserted' = inserted \o ret.written
                  /\ batch' = <<built>>
                  /\ insert_ret' = <<[ids |-> ret.ids, errors |-> ret.errors, log |-> ret.log,
                                      called |-> ret.called, kind |-> ret.kind,
                                      rejected |-> ret.rejected, written |-> ret.written]>>
                  /\ IF stats_raise(Len(trending_news))
                     THEN /\ marketLog' = IF run_pipeline_catches("ZeroDivisionError")
                                          THEN [marketLog EXCEPT ![market] = "failed"]
                                          ELSE marketLog
                          /\ all_articles' = all_articles
                          /\ stats' = <<>>
                          /\ market' = IF run_pipeline_catches("ZeroDivisionError")
                                       THEN next_market(market) ELSE market
                          /\ pc' = IF run_pipeline_catches("ZeroDivisionError")
                                   THEN "next" ELSE "raised"
                     ELSE /\ marketLog' = [marketLog EXCEPT ![market] = "complete"]
                          /\ all_articles' = all_articles \o inserted_articles
                          /\ stats' = <<country_processing_stats(Len(trending_news), Len(built),
                                                                 Len(inserted_articles))>>
                          /\ market' = next_market(market)
                          /\ pc' = "next"
    /\ UNCHANGED <<mainVars, harnessVars>>
    /\ UNCHANGED <<attempt, apiLog, trendingCalls, srcErr, trending_news, tasks, completed,
                   tracker, article_counter, attempted>>

\* run_pipeline: every source and market iterated, return all_articles
run_pipeline_return ==
    /\ pc = "next"
    /\ market > NumMarkets
    /\ pc' = "done"
    /\ UNCHANGED <<insert_ret, stats, mainVars, harnessVars>>
    /\ UNCHANGED <<store, nextId, market, attempt, apiLog, trendingCalls, srcErr,
                   trending_news, tasks, completed, tracker, article_counter, all_articles,
                   marketLog, attempted, inserted, batch>>

Next ==
    \/ process_country
    \/ get_country_trending_news
    \/ \E i \in 1..MaxItems : build_article(i)
    \/ \E i \in 1..MaxItems : build_plain(i)
    \/ process_country_finish
    \/ run_pipeline_return

\* the run of the pipeline
Spec == Init /\ [][Next]_vars

\* the run of the pipeline when every call made returns or raises and every
\* worker thread goes on: some enabled step is eventually taken
SpecTerminates == Init /\ [][Next]_vars /\ WF_vars(Next)

\* the last market of a run whose earlier markets got no answer from the news
\* API, from the moment its items are discovered, with every input of the
\* fetch stages and of the builder
InitBuild ==
    /\ \E pre \in {{}} \cup {{u} : u \in Urls} :
           store = {[id |-> OldId, url |-> u] : u \in pre}
    /\ nextId = 1
    /\ market = NumMarkets
    /\ pc = "build"
    /\ attempt = 1
    /\ apiLog = [m \in Markets |-> IF m < NumMarkets THEN <<NoResponse>> ELSE <<200>>]
    /\ trendingCalls = [m \in Markets |-> 1]
    /\ srcErr = [m \in Markets |-> IF m < NumMarkets THEN "BingNewsError" ELSE "none"]
    /\ trending_news \in SeqsUpTo(Urls, MaxItems)
    /\ tasks = [i \in 1..Len(trending_news) |-> NewTask]
    /\ completed = <<>>
    /\ tracker = [key \in Methods \X Statuses |-> 0]
    /\ article_counter = [total |-> 0,
                          providers |-> [h \in Hosts |-> [failed |-> 0, successful |-> 0]]]
    /\ all_articles = <<>>
    /\ marketLog = [m \in Markets |-> IF m < NumMarkets THEN "failed" ELSE "none"]
    /\ attempted = [m \in Markets |-> m]
    /\ inserted = <<>>
    /\ batch = <<>>
    /\ insert_ret = <<>>
    /\ stats = <<>>
    /\ content_call = NoCall
    /\ threads = [t \in Threads |-> IdleThread]
    /\ calls = [c \in Counters |-> 0]
    /\ fetch_call = NoFetchCall
    /\ article_call = NoArticleCall
    /\ discover_call = NoDiscover
    /\ Constructed

NextBuild ==
    \/ \E i \in 1..MaxItems : build_article(i)
    \/ \E i \in 1..MaxItems : build(i)
    \/ process_country_finish
    \/ run_pipeline_return

SpecBuild == InitBuild /\ [][NextBuild]_vars


\* ------------------------------------------------- a batch larger than the pool
\* the first market of a run, from the moment the news API has answered with
\* MaxBatch items of one host, none of them stored
InitPool ==
    /\ store = {}
    /\ nextId = 1
    /\ market = 1
    /\ pc = "build"
    /\ attempt = 1
    /\ apiLog = [m \in Markets |-> IF m = 1 THEN <<200>> ELSE <<>>]
    /\ trendingCalls = [m \in Markets |-> IF m = 1 THEN 1 ELSE 0]
    /\ srcErr = [m \in Markets |-> "none"]
    /\ \E u \in Urls : trending_news = [i \in 1..MaxBatch |-> u]
    /\ tasks = [i \in 1..MaxBatch |-> NewTask]
    /\ completed = <<>>
    /\ tracker = [key \in Methods \X Statuses |-> 0]
    /\ article_counter = [total |-> 0,
                          providers |-> [h \in Hosts |-> [failed |-> 0, successful |-> 0]]]
    /\ all_articles = <<>>
    /\ marketLog = [m \in Markets |-> "none"]
    /\ attempted = <<1>>
    /\ inserted = <<>>
    /\ batch = <<>>
    /\ insert_ret = <<>>
    /\ stats = <<>>
    /\ content_call = NoCall
    /\ threads = [t \in Threads |-> IdleThread]
    /\ calls = [c \in Counters |-> 0]
    /\ discover_call = NoDiscover
    /\ article_call = NoArticleCall
    /\ fetch_call = NoFetchCall
    /\ Constructed

\* the market's tasks, its bulk insert, and run_pipeline turning to the next
\* market
NextPool ==
    \/ \E i \in 1..MaxBatch : build_article(i)
    \/ \E i \in 1..MaxBatch : build_lean(i)
    \/ process_country_finish
    \/ process_country

\* the run of the pipeline from a large batch to the next market's discovery
SpecPool == InitPool /\ [][NextPool]_vars

\* ------------------------------------------------------------------- main()
\* the process before main() has run, the store set up or not
InitMain ==
    /\ \E pre \in {{}} \cup {{u} : u \in Urls} :
           store = {[id |-> OldId, url |-> u] : u \in pre}
    /\ nextId = 1
    /\ market = 1
    /\ pc = "none"
    /\ attempt = 0
    /\ apiLog = [m \in Markets |-> <<>>]
    /\ trendingCalls = [m \in Markets |-> 0]
    /\ srcErr = [m \in Markets |-> "none"]
    /\ trending_news = <<>>
    /\ tasks = <<>>
    /\ completed = <<>>
    /\ tracker = [key \in Methods \X Statuses |-> 0]
    /\ article_counter = [total |-> 0,
                          providers |-> [h \in Hosts |-> [failed |-> 0, successful |-> 0]]]
    /\ all_articles = <<>>
    /\ marketLog = [m \in Markets |-> "none"]
    /\ attempted = <<>>
    /\ inserted = <<>>
    /\ batch = <<>>
    /\ insert_ret = <<>>
    /\ stats = <<>>
    /\ content_call = NoCall
    /\ threads = [t \in Threads |-> IdleThread]
    /\ calls = [c \in Counters |-> 0]
    /\ fetch_call = NoFetchCall
    /\ article_call = NoArticleCall
    /\ discover_call = NoDiscover
    /\ indexes \in {{}, {"url_1"}}
    /\ main_pc = "start"
    /\ exit_code = <<>>
    /\ runs = 0

\* main() up to its loop: the configuration is loaded (the module config
\* raises while it is imported when MONGO_DB is "missing", and an exception
\* that nothing catches ends the process with code 1), then `if run_now`
\* either calls scrape_news first or goes to the loop
main ==
    /\ main_pc = "start"
    /\ \E config \in {"ok", "missing"}, run_now \in BOOLEAN :
          IF config = "missing"
          THEN main_pc' = "exited" /\ exit_code' = <<1>>
          ELSE main_pc' = (IF run_now THEN "run_now" ELSE "loop") /\ exit_code' = exit_code
    /\ UNCHANGED <<indexes, runs, harnessVars>>
    /\ UNCHANGED <<store, nextId, market, pc, attempt, apiLog, trendingCalls, srcErr,
                   trending_news, tasks, completed, tracker, article_counter, all_articles,
                   marketLog, attempted, inserted, batch, insert_ret, stats>>

\* scrape_news called by main(), at start-up or when the schedule is due:
\* GlobeNewsScraper(config) builds fresh telemetry and the MongoHandler, then
\* scrape_daily starts the pipeline; when the constructor raises, the
\* `except Exception` branch logs at critical and returns to main()'s loop
scrape_news ==
    /\ main_pc \in {"run_now", "loop"}
    /\ runs < MaxRuns
    /\ runs' = runs + 1
    /\ \E ping \in {"ok", "unreachable"} :
          LET made == MongoHandler_init(store, indexes, ping)
          IN  /\ indexes' = made.indexes
              /\ main_pc' = IF made.raised THEN "loop" ELSE "scrape"
              /\ pc' = IF made.raised THEN "none" ELSE "next"
    /\ market' = 1
    /\ attempt' = 0
    /\ apiLog' = [m \in Markets |-> <<>>]
    /\ trendingCalls' = [m \in Markets |-> 0]
    /\ srcErr' = [m \in Markets |-> "none"]
    /\ trending_news' = <<>>
    /\ tasks' = <<>>
    /\ completed' = <<>>
    /\ tracker' = [key \in Methods \X Statuses |-> 0]
    /\ article_counter' = [total |-> 0,
                           providers |-> [h \in Hosts |-> [failed |-> 0, successful |-> 0]]]
    /\ all_articles' = <<>>
    /\ marketLog' = [m \in Markets |-> "none"]
    /\ attempted' = <<>>
    /\ inserted' = <<>>
    /\ batch' = <<>>
    /\ insert_ret' = <<>>
    /\ stats' = <<>>
    /\ UNCHANGED <<store, nextId, exit_code, harnessVars>>

\* scrape_news after scrape_daily: an exception of the run is caught and
\* scrape_news returns; after a run that returned, the results are logged
\* outside the try block, so a KeyError of log_request_summary leaves
\* scrape_news and main() and ends the process with code 1; otherwise back in
\* main()'s loop, which waits for the next scheduled run
scrape_news_return ==
    /\ main_pc = "scrape"
    /\ pc \in {"done", "raised"}
    /\ IF pc = "done" /\ log_request_summary(tracker).raised
       THEN main_pc' = "exited" /\ exit_code' = <<1>>
       ELSE main_pc' = "loop" /\ exit_code' = exit_code
    /\ pc' = "none"
    /\ UNCHANGED <<indexes, runs, harnessVars>>
    /\ UNCHANGED <<store, nextId, market, attempt, apiLog, trendingCalls, srcErr,
                   trending_news, tasks, completed, tracker, article_counter, all_articles,
                   marketLog, attempted, inserted, batch, insert_ret, stats>>

\* db_init.setup_database run while the scraper waits: MongoHandler(config),
\* then initialize_database; a MongoHandlerError ends that tool, not main()
setup_database ==
    /\ main_pc \in {"start", "loop"}
    /\ \E ping \in {"ok", "unreachable"} :
          LET made == MongoHandler_init(store, indexes, ping)
          IN  indexes' = IF made.raised THEN made.indexes
                         ELSE initialize_database(store, made.indexes).indexes
    /\ UNCHANGED <<main_pc, exit_code, runs, harnessVars>>
    /\ UNCHANGED <<store, nextId, market, pc, attempt, apiLog, trendingCalls, srcErr,
                   trending_news, tasks, completed, tracker, article_counter, all_articles,
                   marketLog, attempted, inserted, batch, insert_ret, stats>>

NextMain ==
    \/ main
    \/ scrape_news
    \/ scrape_news_return
    \/ setup_database
    \/ process_country
    \/ get_country_trending_news
    \/ \E i \in 1..MaxItems : build_article(i)
    \/ \E i \in 1..MaxItems : build_plain(i)
    \/ process_country_finish
    \/ run_pipeline_return

\* the process main.py starts, next to the database set-up tool
SpecMain == InitMain /\ [][NextMain]_vars


\* ------------------------------------------------- calls on an extracted text
\* a pipeline that is not running
Idle ==
    /\ store = {}
    /\ nextId = 1
    /\ market = 1
    /\ pc = "next"
    /\ attempt = 0
    /\ apiLog = [m \in Markets |-> <<>>]
    /\ trendingCalls = [m \in Markets |-> 0]
    /\ srcErr = [m \in Markets |-> "none"]
    /\ trending_news = <<>>
    /\ tasks = <<>>
    /\ completed = <<>>
    /\ tracker = [key \in Methods \X Statuses |-> 0]
    /\ article_counter = [total |-> 0,
                          providers |-> [h \in Hosts |-> [failed |-> 0, successful |-> 0]]]
    /\ all_articles = <<>>
    /\ marketLog = [m \in Markets |-> "none"]
    /\ attempted = <<>>
    /\ inserted = <<>>
    /\ batch = <<>>
    /\ insert_ret = <<>>
    /\ stats = <<>>
    /\ indexes = {}
    /\ main_pc = "start"
    /\ exit_code = <<>>
    /\ runs = 0

pipelineVars == <<store, nextId, market, pc, attempt, apiLog, trendingCalls, srcErr,
                  trending_news, tasks, completed, all_articles, marketLog, attempted,
                  inserted, batch, insert_ret, stats, mainVars>>

\* every body the extractor can hand over, up to MaxContentLen tokens
InitContent ==
    /\ Idle
    /\ \E s \in SeqsUpTo(ContentTokens, MaxContentLen) : content_call = [NoCall EXCEPT !.s = s]
    /\ threads = [t \in Threads |-> IdleThread]
    /\ calls = [c \in Counters |-> 0]
    /\ fetch_call = NoFetchCall
    /\ article_call = NoArticleCall
    /\ discover_call = NoDiscover

\* ContentValidator.validate called on the text
validate_call ==
    /\ content_call.op = "none"
    /\ LET v == validate(content_call.s)
       IN  content_call' = [content_call EXCEPT !.op = "validate", !.text = content_call.s,
                                                 !.ok = v.ok, !.issues = v.issues]
    /\ UNCHANGED <<pipelineVars, tracker, article_counter, threads, calls, callVars>>

\* ContentValidator.sanitize called on the text
sanitize_call ==
    /\ content_call.op = "none"
    /\ content_call' = [content_call EXCEPT !.op = "sanitize", !.text = sanitize(content_call.s)]
    /\ UNCHANGED <<pipelineVars, tracker, article_counter, threads, calls, callVars>>

\* ArticleBuilder.build run on a body the extractor returned
build_call ==
    /\ content_call.op = "none"
    /\ LET b == build_from_extracted(content_call.s)
       IN  content_call' = [content_call EXCEPT !.op = "build", !.text = b.text,
                                                 !.ok = (b.issues = <<>>), !.issues = b.issues,
                                                 !.content = b.content]
    /\ UNCHANGED <<pipelineVars, tracker, article_counter, threads, calls, callVars>>

NextContent ==
    \/ validate_call
    \/ sanitize_call
    \/ build_call

SpecContent == InitContent /\ [][NextContent]_vars

\* ------------------------------------------- telemetry updates of the workers
\* the counters one telemetry call increments, in the order of its statements:
\* track_request one (method, status) count, track_build_attempt the total and
\* then the host's outcome count
TrackOps == {<<"basic_request:200">>, <<"all_methods_failed:408">>,
             <<"total", "example.com:failed">>}

\* value of a counter
counter_value(c) ==
    CASE c = "basic_request:200" -> tracker[<<"basic_request", 200>>]
      [] c = "all_methods_failed:408" -> tracker[<<"all_methods_failed", 408>>]
      [] c = "total" -> article_counter.total
      [] OTHER -> article_counter.providers["example.com"].failed

\* the worker threads of one market, none of them inside a telemetry call
InitCounter ==
    /\ Idle
    /\ content_call = NoCall
    /\ threads = [t \in Threads |-> IdleThread]
    /\ calls = [c \in Counters |-> 0]
    /\ fetch_call = NoFetchCall
    /\ article_call = NoArticleCall
    /\ discover_call = NoDiscover

\* first half of `counter += 1` (or of the membership test followed by
\* `= 1`) in thread t: the current value is read; neither class takes a lock,
\* so other threads run between this and the store
worker_read(t) ==
    /\ threads[t].pc = "idle"
    /\ threads[t].todo = <<>> => threads[t].made < MaxCalls
    /\ \E op \in (IF threads[t].todo = <<>> THEN TrackOps ELSE {threads[t].todo}) :
          threads' = [threads EXCEPT ![t] = [@ EXCEPT !.pc = "read", !.todo = op,
                                                       !.read = counter_value(op[1])]]
    /\ UNCHANGED <<pipelineVars, tracker, article_counter, content_call, calls, callVars>>

\* second half in thread t: the value read, plus one, is stored
worker_write(t) ==
    /\ threads[t].pc = "read"
    /\ LET c == threads[t].todo[1]
           v == threads[t].read + 1
           rest == Tail(threads[t].todo)
       IN  /\ tracker' = CASE c = "basic_request:200" -> [tracker EXCEPT ![<<"basic_request", 200>>] = v]
                           [] c = "all_methods_failed:408" ->
                                [tracker EXCEPT ![<<"all_methods_failed", 408>>] = v]
                           [] OTHER -> tracker
           /\ article_counter' =
                  CASE c = "total" -> [article_counter EXCEPT !.total = v]
                    [] c = "example.com:failed" ->
                         [article_counter EXCEPT !.providers["example.com"].failed = v]
                    [] OTHER -> article_counter
           /\ calls' = [calls EXCEPT ![c] = @ + 1]
           /\ threads' = [threads EXCEPT ![t] =
                             [@ EXCEPT !.pc = "idle", !.todo = rest,
                                       !.made = IF rest = <<>> THEN @ + 1 ELSE @]]
    /\ UNCHANGED <<pipelineVars, content_call, callVars>>

NextCounter ==
    \/ \E t \in Threads : worker_read(t)
    \/ \E t \in Threads : worker_write(t)

SpecCounter == InitCounter /\ [][NextCounter]_vars

\* ------------------------------------------- calls on a news API response
\* every list of articles the API can answer with, up to MaxItems long
InitDiscover ==
    /\ Idle
    /\ tracker = [key \in Methods \X Statuses |-> 0]
    /\ article_counter = [total |-> 0,
                          providers |-> [h \in Hosts |-> [failed |-> 0, successful |-> 0]]]
    /\ content_call = NoCall
    /\ threads = [t \in Threads |-> IdleThread]
    /\ calls = [c \in Counters |-> 0]
    /\ fetch_call = NoFetchCall
    /\ article_call = NoArticleCall
    /\ article_call = NoArticleCall
    /\ fetch_call = NoFetchCall
    /\ \E value \in SeqsUpTo(RawArticles, MaxItems) :
          discover_call = [NoDiscover EXCEPT !.value = value]

\* _process_news_response called on the response
process_call ==
    /\ discover_call.op = "none"
    /\ LET r == process_news_response(discover_call.value)
       IN  discover_call' = [discover_call EXCEPT !.op = "process", !.raised = r.raised,
                                                   !.items = r.items]
    /\ UNCHANGED <<pipelineVars, tracker, article_counter, content_call, threads, calls,
                   article_call, fetch_call>>

SpecDiscover == InitDiscover /\ [][process_call]_vars

\* ------------------------------------------- calls of _create_globe_article
\* every item, with every extracted content
InitCompose ==
    /\ Idle
    /\ tracker = [key \in Methods \X Statuses |-> 0]
    /\ article_counter = [total |-> 0,
                          providers |-> [h \in Hosts |-> [failed |-> 0, successful |-> 0]]]
    /\ content_call = NoCall
    /\ threads = [t \in Threads |-> IdleThread]
    /\ calls = [c \in Counters |-> 0]
    /\ fetch_call = NoFetchCall
    /\ discover_call = NoDiscover
    /\ \E item \in NewsSourceArticleData, extracted \in ArticleData :
          article_call = [NoArticleCall EXCEPT !.item = <<item>>, !.extracted = <<extracted>>]

\* _create_globe_article called on the pair
create_call ==
    /\ article_call.op = "none"
    /\ article_call' = [article_call EXCEPT
                           !.op = "create",
                           !.article = <<create_globe_article(article_call.extracted[1],
                                                              article_call.item[1])>>]
    /\ UNCHANGED <<pipelineVars, tracker, article_counter, content_call, threads, calls,
                   discover_call, fetch_call>>

SpecCompose == InitCompose /\ [][create_call]_vars

\* ------------------------------------------------------ calls of a fetch stage
\* every stage, with every outcome of its steps
InitFetch ==
    /\ Idle
    /\ tracker = [key \in Methods \X Statuses |-> 0]
    /\ article_counter = [total |-> 0,
                          providers |-> [h \in Hosts |-> [failed |-> 0, successful |-> 0]]]
    /\ content_call = NoCall
    /\ threads = [t \in Threads |-> IdleThread]
    /\ calls = [c \in Counters |-> 0]
    /\ discover_call = NoDiscover
    /\ article_call = NoArticleCall
    /\ \E stage \in {"custom", "basic", "postman", "playwright"}, e \in StepOutcomes :
          fetch_call = [NoFetchCall EXCEPT !.stage = stage, !.e = <<e>>]

\* the stage function called
fetch_stage_call ==
    /\ fetch_call.op = "none"
    /\ LET r == stage_call(fetch_call.stage, fetch_call.e[1])
       IN  fetch_call' = [fetch_call EXCEPT !.op = "called", !.ret = <<r.ret>>, !.open = r.open]
    /\ UNCHANGED <<pipelineVars, tracker, article_counter, content_call, threads, calls,
                   discover_call, article_call>>

SpecFetch == InitFetch /\ [][fetch_stage_call]_vars

\* ===================================================================== claims
\* a run of the generic chain in which basic, postman and playwright all
\* answered a non-200 status
AllFailed(run) ==
    /\ Len(run) = 3
    /\ run[1][1] = "basic" /\ run[2][1] = "postman" /\ run[3][1] = "playwright"
    /\ \A j \in 1..3 : run[j][2] \notin {200, Raised}

\* tracker method key of a generic stage
method_of(stage) == stage \o "_request"

\* steps <<i, j>>: step j of task i's fetch ran `stage` and got `status`
StepsWith(stage, status) ==
    {ij \in (DOMAIN tasks) \X (1..MaxStages) :
        /\ ij[2] <= Len(tasks[ij[1]].stagelog)
        /\ tasks[ij[1]].stagelog[ij[2]] = <<stage, status>>}

\* a market whose discovery is over
DiscoveryOver(m) == m < market \/ (m = market /\ pc \in {"build", "raised"}) \/ pc = "done"

\* C1: an item whose url the store reported as existing when _build_article
\* checked it never has ArticleBuilder.build invoked and puts no article into
\* the market's insert batch.
C1_Dedup ==
    \A i \in DOMAIN tasks :
        tasks[i].existed =>
            /\ ~tasks[i].built
            /\ tasks[i].result = <<>>
            /\ batch # <<>> => \A j \in DOMAIN batch[1] : batch[1][j].item # i

\* an existing item was skipped while a sibling went into the insert batch
C1_Witness ==
    /\ batch # <<>>
    /\ Len(batch[1]) >= 1
    /\ \E i \in DOMAIN tasks : tasks[i].existed /\ tasks[i].pc = "done"

\* C2: for a url whose host has a custom fetcher, fetch_content runs the
\* custom stage only; when it returns a status the call adds exactly 1 to
\* custom_<host>_request:<status>, changes no other counter, and returns the
\* body on 200 and nothing otherwise.
C2_CustomExclusive ==
    [][\A i \in DOMAIN tasks :
          ( /\ i \in DOMAIN tasks'
            /\ tasks[i].pc = "running"
            /\ tasks'[i].pc = "done"
            /\ netloc(trending_news[i]) \in domain_fetchers )
          => LET run == tasks'[i].stagelog
                 host == netloc(trending_news[i])
             IN  /\ Len(run) = 1
                 /\ run[1][1] = "custom"
                 /\ run[1][2] # Raised =>
                       /\ tracker' = [tracker EXCEPT ![<<custom_method(host), run[1][2]>>] = @ + 1]
                       /\ tasks'[i].fetched = IF run[1][2] = 200 THEN "custom" ELSE None
                       /\ run[1][2] # 200 => tasks'[i].result = <<>>
      ]_vars

\* a custom fetcher answered 500: counted once, nothing returned
C2_Witness ==
    \E i \in DOMAIN tasks :
        /\ tasks[i].pc = "done"
        /\ tasks[i].stagelog = << <<"custom", 500>> >>
        /\ tasks[i].fetched = None
        /\ tracker[<<custom_method(netloc(trending_news[i])), 500>>] >= 1

\* C3: in one fetch_content call of the generic chain the stages run in the
\* order basic, postman, playwright, each at most once; a stage answering 200
\* is the last one to run and its body is the result.
C3_ChainOrder ==
    \A i \in DOMAIN tasks :
        LET run == tasks[i].stagelog
            order == <<"basic", "postman", "playwright">>
        IN  (run # <<>> /\ run[1][1] # "custom") =>
                /\ Len(run) <= 3
                /\ \A j \in 1..Len(run) : run[j][1] = order[j]
                /\ \A j \in 1..Len(run) :
                       run[j][2] = 200 => (j = Len(run) /\ tasks[i].fetched = run[j][1])

\* basic failed, postman answered 200 and supplied the body
C3_Witness ==
    \E i \in DOMAIN tasks :
        /\ tasks[i].stagelog = << <<"basic", 403>>, <<"postman", 200>> >>
        /\ tasks[i].fetched = "postman"

\* C4: every stage records its own outcome: a basic or postman stage that
\* answers status s adds to <method>:s, also when s is not 200, and a
\* playwright stage answering 200 adds to playwright_request:200.
C4_StageRecordsOutcome ==
    /\ \A stage \in {"basic", "postman"} : \A s \in Statuses :
           tracker[<<method_of(stage), s>>] >= Cardinality(StepsWith(stage, s))
    /\ tracker[<<"playwright_request", 200>>] >= Cardinality(StepsWith("playwright", 200))

\* C5: a call in which basic, postman and playwright all answer non-200
\* returns nothing and adds exactly 1 to all_methods_failed under the
\* playwright stage's status.
C5_AllMethodsFailed ==
    /\ \A i \in DOMAIN tasks :
           AllFailed(tasks[i].stagelog) => (tasks[i].fetched = None /\ tasks[i].result = <<>>)
    /\ \A s \in Statuses :
           tracker[<<"all_methods_failed", s>>] =
               Cardinality({i \in DOMAIN tasks : /\ AllFailed(tasks[i].stagelog)
                                                 /\ tasks[i].stagelog[3][2] = s})

\* every stage failed, playwright last with 408
C5_Witness ==
    \E i \in DOMAIN tasks :
        /\ AllFailed(tasks[i].stagelog)
        /\ tasks[i].stagelog[1][2] = 403
        /\ tasks[i].stagelog[3][2] = 408
        /\ tracker[<<"all_methods_failed", 408>>] >= 1

\* C6: for one market at most 3 requests go to the news API, also when every
\* one is answered 429, and the pipeline calls get_country_trending_news
\* exactly once for every market it has entered.
C6_RetryBound ==
    \A m \in Markets :
        /\ Len(apiLog[m]) <= 3
        /\ trendingCalls[m] = IF \E j \in DOMAIN attempted : attempted[j] = m THEN 1 ELSE 0

\* a run ended in which every request of some market was answered 429
C6_Witness ==
    /\ pc = "done"
    /\ \E m \in Markets :
          /\ apiLog[m] # <<>>
          /\ \A j \in DOMAIN apiLog[m] : apiLog[m][j] = RateLimitStatus

\* C7: a 429 answer is retried (as long as attempts remain); any other error
\* status fails as a NewsSourceError with exactly one request issued.
C7_RateLimitRetried ==
    \A m \in Markets :
        DiscoveryOver(m) =>
            /\ \A j \in DOMAIN apiLog[m] :
                   (apiLog[m][j] = RateLimitStatus /\ j < StopAfterAttempt) => Len(apiLog[m]) > j
            /\ (apiLog[m] # <<>> /\ apiLog[m][1] = 500) =>
                   (Len(apiLog[m]) = 1 /\ IsNewsSourceError(srcErr[m]))

\* C8: when every attempt for a market is answered 429, three attempts are
\* made, the error leaving the news source is a NewsSourceError, the market
\* is logged as failed and skipped, and the pipeline goes on.
C8_RateLimitExhausted ==
    \A m \in Markets :
        ( /\ DiscoveryOver(m)
          /\ apiLog[m] # <<>>
          /\ \A j \in DOMAIN apiLog[m] : apiLog[m][j] = RateLimitStatus )
        => /\ Len(apiLog[m]) = StopAfterAttempt
           /\ IsNewsSourceError(srcErr[m])
           /\ marketLog[m] = "failed"
           /\ pc # "raised"

\* C9: run_pipeline never raises, and enters every market exactly once in
\* order, whatever happened to the markets before it.
C9_NeverAborts ==
    /\ pc # "raised"
    /\ attempted = [j \in 1..Len(attempted) |-> j]
    /\ Len(attempted) = CASE pc = "next" -> market - 1
                          [] pc = "done" -> NumMarkets
                          [] OTHER -> market

\* a run ended in which a market failed and the market after it completed
C9_Witness ==
    /\ pc = "done"
    /\ \E m \in Markets :
          /\ m < NumMarkets
          /\ marketLog[m] = "failed"
          /\ marketLog[m + 1] = "complete"

\* C10: the list run_pipeline returns is exactly the ids of the documents the
\* store inserted during the run, in insertion order.
C10_ResultIsInserted ==
    pc = "done" => all_articles = inserted

\* tasks of the market in progress for which ArticleBuilder.build was invoked
\* on a url of host h
BuildsOf(h) == {i \in DOMAIN tasks : tasks[i].built /\ netloc(trending_news[i]) = h}

\* position of a pattern in the configured list
pattern_index(name) == CHOOSE k \in DOMAIN blocked_patterns : blocked_patterns[k] = name

\* a step that is the return of the market's bulk insert call
InsertReturns == insert_ret = <<>> /\ insert_ret' # <<>>

\* C11: an Article returned by ArticleBuilder.build carries content of
\* MIN_CONTENT_LENGTH..MAX_CONTENT_LENGTH characters that no blocked pattern
\* matches, and a sanitized text with validation issues makes build return
\* None.
C11_ValidContent ==
    content_call.op = "build" =>
        /\ \A j \in DOMAIN content_call.content :
               LET c == content_call.content[j]
               IN  /\ MIN_CONTENT_LENGTH <= len(c)
                   /\ len(c) <= MAX_CONTENT_LENGTH
                   /\ \A k \in DOMAIN blocked_patterns : ~re_search(blocked_patterns[k], c)
        /\ content_call.issues # <<>> => content_call.content = <<>>

\* build returned an article whose content is the sanitized form of a body
\* that itself held a blocked pattern
C11_Witness ==
    /\ content_call.op = "build"
    /\ content_call.content # <<>>
    /\ content_call.content[1] # content_call.s
    /\ \E k \in DOMAIN blocked_patterns : re_search(blocked_patterns[k], content_call.s)

\* C12: every invocation of ArticleBuilder.build records exactly one build
\* outcome for the url's host: "successful" when it returns an article,
\* "failed" when it returns none (no content fetched, extractor error,
\* invalid content, composition error).
C12_OneOutcomePerBuild ==
    \A h \in Hosts :
        /\ article_counter.providers[h].successful =
               Cardinality({i \in BuildsOf(h) : tasks[i].result # <<>>})
        /\ article_counter.providers[h].failed =
               Cardinality({i \in BuildsOf(h) : tasks[i].result = <<>>})

\* C13: whenever _build_article ends with None for an item that was not
\* deduplicated, some telemetry counter has changed in the course of that
\* build.
C13_FailureCounted ==
    [][\A i \in DOMAIN tasks :
          ( /\ i \in DOMAIN tasks'
            /\ tasks[i].pc = "running"
            /\ tasks'[i].pc = "done"
            /\ tasks'[i].result = <<>> )
          => (tracker' # tracker \/ article_counter' # article_counter)
      ]_vars

\* C14: no telemetry update is lost: once the worker threads are outside
\* their telemetry calls, every counter has grown by the number of updates
\* made to it.
C14_NoLostUpdate ==
    (\A t \in Threads : threads[t].pc = "idle" /\ threads[t].todo = <<>>)
        => \A c \in Counters : counter_value(c) = calls[c]

\* C15: insert_bulk_articles returns no more ids and errors together than it
\* was given articles; given none it returns neither, does not call
\* insert_many and the store gains nothing.
C15_InsertBounded ==
    insert_ret # <<>> =>
        /\ Len(insert_ret[1].ids) + Len(insert_ret[1].errors) <= Len(batch[1])
        /\ Len(batch[1]) = 0 =>
               /\ insert_ret[1].ids = <<>>
               /\ insert_ret[1].errors = <<>>
               /\ ~insert_ret[1].called
               /\ insert_ret[1].written = <<>>

\* a market's insert call was given no article and returned nothing
C15_Witness ==
    /\ insert_ret # <<>>
    /\ batch = << <<>> >>
    /\ insert_ret[1].ids = <<>>
    /\ insert_ret[1].errors = <<>>
    /\ trending_news # <<>>

\* C16: when the store rejects some documents of the batch,
\* insert_bulk_articles returns one {index, url, error} entry per rejected
\* document, url being that of the article at the index, and the ids of all
\* the documents that were inserted.
C16_PartialFailure ==
    (insert_ret # <<>> /\ insert_ret[1].kind = "BulkWriteError") =>
        LET r == insert_ret[1]
        IN  /\ Len(r.errors) = Cardinality(r.rejected)
            /\ \A j \in DOMAIN r.errors :
                   /\ DOMAIN r.errors[j] = {"index", "url", "error"}
                   /\ r.errors[j].index \in r.rejected
                   /\ r.errors[j].url = batch[1][r.errors[j].index].url
            /\ Len(r.ids) = Len(batch[1]) - Cardinality(r.rejected)
            /\ r.ids = r.written

\* C17: when insert_many fails as a whole (timeout or any other exception),
\* insert_bulk_articles returns no ids and exactly one {error} entry and logs
\* an error; the market adds nothing to the run result and run_pipeline goes
\* on to the next market.
C17_TotalFailure ==
    [][( /\ InsertReturns
         /\ insert_ret'[1].kind \in {"ExecutionTimeout", "Exception"} )
       => /\ insert_ret'[1].ids = <<>>
          /\ Len(insert_ret'[1].errors) = 1
          /\ DOMAIN insert_ret'[1].errors[1] = {"error"}
          /\ "error" \in insert_ret'[1].log
          /\ all_articles' = all_articles
          /\ pc' = "next"
          /\ market' = market + 1
      ]_vars

\* the first market's insert timed out and the second market was entered
C17_Witness ==
    /\ market = 2
    /\ pc = "trending"
    /\ insert_ret # <<>>
    /\ insert_ret[1].kind = "ExecutionTimeout"
    /\ Len(batch[1]) >= 1
    /\ all_articles = <<>>

\* C18: a market with discovered items of which none was built does not
\* invoke the store's bulk insert, adds nothing to the run result, and logs
\* articles_built = 0, articles_inserted = 0, insert_success_rate = "N/A".
C18_NoInsertWhenNothingBuilt ==
    ( /\ pc = "next"
      /\ trending_news # <<>>
      /\ batch = << <<>> >> )
    => /\ insert_ret = <<>>
       /\ stats # <<>>
       /\ stats[1].articles_built = 0
       /\ stats[1].articles_inserted = 0
       /\ stats[1].insert_success_rate = "N/A"

C20_SanitizedClean ==
    content_call.op = "sanitize" =>
        /\ \A k \in DOMAIN blocked_patterns : ~re_search(blocked_patterns[k], content_call.text)
        /\ ~re_search("tag", content_call.text)

\* C21: no two documents of the articles collection have the same url.
C21_UrlUnique == duplicate_urls(store) = {}

\* C22: the batch handed to the bulk insert for a market holds at most one
\* article per url.
C22_BatchDeduplicated ==
    batch # <<>> =>
        \A i, j \in DOMAIN batch[1] : i # j => batch[1][i].url # batch[1][j].url

\* a step in which the store adapter's constructor raises inside scrape_news
ConstructorRaises == runs' = runs + 1 /\ pc' = "none"

\* C23: when the store adapter's constructor raises, no market is processed
\* and the process exits with code 1.
C23_InitFailureFatal ==
    [][ConstructorRaises =>
          /\ attempted' = <<>>
          /\ main_pc' = "exited"
          /\ exit_code' = <<1>>]_vars

\* the DiscoveryItems of the well-formed articles of a response, in order
RECURSIVE well_formed_items(_)
well_formed_items(value) ==
    IF value = <<>> THEN <<>>
    ELSE (IF well_formed(Head(value)) THEN <<article_data(Head(value)).item>> ELSE <<>>)
           \o well_formed_items(Tail(value))

\* C24: _process_news_response does not fail on a response that mixes
\* malformed and well-formed articles; it returns exactly the items of the
\* well-formed ones.
C24_MalformedSkipped ==
    discover_call.op = "process" =>
        /\ ~discover_call.raised
        /\ discover_call.items = well_formed_items(discover_call.value)

\* C25: the article composed from a DiscoveryItem and an extracted content
\* has the item's title, url, description, date_published, provider,
\* origin_country and source_api; its language is the item's when the item
\* has one and the extractor's meta_lang otherwise; its image_url is the
\* item's when the item has one and the extractor's top_image otherwise.
C25_FieldDerivation ==
    article_call.op = "create" =>
        LET a == article_call.article[1]
            item == article_call.item[1]
            extracted == article_call.extracted[1]
        IN  /\ a.title = item.title
            /\ a.url = item.url
            /\ a.description = item.description
            /\ a.date_published = item.date_published
            /\ a.provider = item.provider
            /\ a.origin_country = item.origin_country
            /\ a.source_api = item.source_api
            /\ a.language = (IF item.language # None THEN item.language ELSE extracted.meta_lang)
            /\ a.image_url = (IF item.image_url # None THEN item.image_url
                              ELSE extracted.top_image)

\* an article composed from an item with a language and without an image,
\* and a content with both
C25_Witness ==
    /\ article_call.op = "create"
    /\ article_call.item[1].language = "de"
    /\ article_call.item[1].image_url = None
    /\ article_call.extracted[1].meta_lang = "es"
    /\ article_call.article[1].language = "de"
    /\ article_call.article[1].image_url = "https://example.com/top.jpg"

\* C26: the output of sanitize holds no zero-width character.
C26_NoZeroWidth ==
    content_call.op = "sanitize" => \A i \in DOMAIN content_call.text : content_call.text[i] # "U+200B"

\* a call of the msn.com fetcher whose browser, context and page were made
\* and whose close calls succeed
MsnNavigates ==
    /\ fetch_call.op = "called"
    /\ fetch_call.stage = "custom"
    /\ \A k \in {"enter", "launch", "new_context", "new_page", "context_close", "browser_close"} :
          fetch_call.e[1][k] = "ok"

\* C27: the msn.com fetcher returns 408 when the navigation times out and 500
\* on any other error.
C27_MsnTimeout408 ==
    MsnNavigates =>
        /\ fetch_call.e[1].goto = "timeout" => fetch_call.ret = <<408>>
        /\ (fetch_call.e[1].goto = "error"
              \/ (fetch_call.e[1].goto # "timeout" /\ fetch_call.e[1].read = "error"))
             => fetch_call.ret = <<500>>

\* C28: no stage lets an error out; a failure to start the driver or to
\* launch the browser is answered with status 500.
C28_StageErrorsContained ==
    fetch_call.op = "called" =>
        /\ fetch_call.ret # <<Raised>>
        /\ (fetch_call.stage \in {"custom", "playwright"}
              /\ (fetch_call.e[1].enter = "error" \/ fetch_call.e[1].launch = "error"))
             => fetch_call.ret = <<500>>

C30_WorkerBound ==
    /\ Cardinality(Running) <= MAX_SCRAPING_WORKERS
    /\ Running # {} => (pc = "build" /\ DOMAIN tasks = DOMAIN trending_news)
    /\ pc = "trending" => \A i \in DOMAIN tasks : tasks[i].pc = "done"

\* the pool is full and a further task of the batch waits for a worker
C30_Witness ==
    /\ Cardinality(Running) = MAX_SCRAPING_WORKERS
    /\ \E i \in DOMAIN tasks : tasks[i].pc = "pending"

\* the articles of the tasks that returned one, in the order the tasks completed
CompletionOrderBatch ==
    LET ok == SelectSeq(completed, LAMBDA i : tasks[i].result # <<>>)
    IN  [j \in DOMAIN ok |-> Article(ok[j])]

\* C31: a market has a single insert batch: it is formed once, only after
\* every task of the market has completed, each task having completed exactly
\* once, and it holds exactly the non-None build results in completion order.
C31_SingleBatch ==
    [][(batch' # batch /\ batch' # <<>>)
       => /\ batch = <<>>
          /\ \A i \in DOMAIN tasks : tasks[i].pc = "done"
          /\ Len(completed) = Len(tasks)
          /\ \A i \in DOMAIN tasks : \E j \in DOMAIN completed : completed[j] = i
          /\ batch'[1] = CompletionOrderBatch'
      ]_vars

\* the second item's task completed first and the batch holds both articles,
\* the second item's first
C31_Witness ==
    /\ completed = <<2, 1>>
    /\ batch # <<>>
    /\ Len(batch[1]) = 2
    /\ batch[1][1].item = 2

\* task i went through ArticleBuilder.build and ended with None: build raised
\* or returned None
BuildFailed(i) == tasks[i].built /\ tasks[i].result = <<>>

\* C32: no cross-task cancellation: when the build of one item of a market
\* fails, every sibling task has still run to completion when the batch is
\* formed (ended by the existence check or by its own build), and every
\* sibling that built an article has it in the market's insert batch.
C32_NoCancellation ==
    batch # <<>> =>
        \A i \in DOMAIN tasks :
            BuildFailed(i) =>
                \A j \in DOMAIN tasks \ {i} :
                    /\ tasks[j].pc = "done"
                    /\ tasks[j].existed \/ tasks[j].built
                    /\ tasks[j].result # <<>> =>
                           \E k \in DOMAIN batch[1] : batch[1][k] = Article(j)

\* the first item's build raised and completed first, the second item was
\* built after it and is the market's batch
C32_Witness ==
    /\ completed = <<1, 2>>
    /\ BuildFailed(1)
    /\ run_raised(tasks[1].stagelog)
    /\ tasks[2].result # <<>>
    /\ batch = << <<Article(2)>> >>

\* the market run_pipeline has just left, its discovery having returned a list
JustProcessed == pc = "next" /\ market > 1 /\ srcErr[market - 1] = "none"

\* C33: every market whose discovery succeeded gets its statistics line and
\* is logged as complete: build_success_rate is built/discovered, 0 when
\* nothing was discovered, insert_success_rate is inserted/built, "N/A" when
\* nothing was built.
C33_StatsForEveryMarket ==
    JustProcessed =>
        /\ marketLog[market - 1] = "complete"
        /\ stats # <<>>
        /\ stats[1].total_trending_news = Len(trending_news)
        /\ stats[1].build_success_rate =
               (IF trending_news = <<>> THEN "0%"
                ELSE percent(stats[1].articles_built, Len(trending_news)))
        /\ stats[1].insert_success_rate =
               (IF stats[1].articles_built = 0 THEN "N/A"
                ELSE percent(stats[1].articles_inserted, stats[1].articles_built))

\* Python's str.split() on the meta_keywords strings of ArticleData: the
\* whitespace-separated tokens
split_whitespace(s) ==
    CASE s = "" -> <<>>
      [] s = "test, article" -> <<"test,", "article">>

\* C34: the article's keywords are the extractor's meta_keywords split on
\* whitespace, one element per token, and the empty list when meta_keywords
\* is empty.
C34_KeywordsSplit ==
    article_call.op = "create" =>
        article_call.article[1].keywords =
            split_whitespace(article_call.extracted[1].meta_keywords)

\* C35: the playwright stage answers status 200 only when the navigation
\* produced a response whose status is 200; a navigation that yields no
\* response is not answered with 200.
C35_PlaywrightSuccess ==
    ( /\ fetch_call.op = "called"
      /\ fetch_call.stage = "playwright"
      /\ fetch_call.ret = <<200>> )
    => /\ fetch_call.e[1].goto = "response"
       /\ fetch_call.e[1].status = 200

\* tasks of the market whose fetch_content call returned
FetchReturned == {i \in DOMAIN tasks : tasks[i].built /\ ~run_raised(tasks[i].stagelog)}

\* the pair a returned fetch of task i has to be counted under: the custom
\* fetcher's key, the key of the stage that answered 200, or all_methods_failed
ExpectedKeys(i) ==
    LET run == tasks'[i].stagelog
        last == run[Len(run)]
    IN  IF last[1] = "custom" THEN {<<custom_method(netloc(trending_news[i])), last[2]>>}
        ELSE IF last[2] = 200 THEN {<<method_of(last[1]), 200>>}
        ELSE {<<"all_methods_failed", st>> : st \in Statuses}

\* C36: a fetch_content call that returns adds exactly 1 to exactly one
\* (method, status) counter (the custom fetcher's, that of the first stage
\* that answered 200, or all_methods_failed), so with fetches made one after
\* the other the counters sum to the number of calls that returned.
C36_OneCountPerFetch ==
    /\ [](SumOver(tracker, DOMAIN tracker) = Cardinality(FetchReturned))
    /\ [][\A i \in DOMAIN tasks :
             ( /\ i \in DOMAIN tasks'
               /\ tasks[i].pc = "running"
               /\ tasks'[i].pc = "done"
               /\ ~run_raised(tasks'[i].stagelog) )
             => \E k \in ExpectedKeys(i) : tracker' = [tracker EXCEPT ![k] = @ + 1]
         ]_vars

\* two fetches returned, one after a failed custom fetcher and one after
\* the whole generic chain failed, and two requests are counted
C36_Witness ==
    /\ Cardinality(FetchReturned) = 2
    /\ tracker[<<"all_methods_failed", 408>>] = 1
    /\ \E h \in domain_fetchers : tracker[<<custom_method(h), 500>>] = 1
    /\ SumOver(tracker, DOMAIN tracker) = 2

\* C37: for every state of the tracker that track_request calls produce, also
\* one where a method has only non-200 statuses, get_total_requests and
\* log_request_summary complete without raising and count 0 successes for
\* such a method; the process is not ended by logging the results of a run.
C37_SummaryCompletes ==
    /\ ~get_total_requests(tracker).raised
    /\ ~log_request_summary(tracker).raised
    /\ \A m \in DOMAIN log_request_summary(tracker).lines :
           200 \notin method_stats(tracker, m)
               => log_request_summary(tracker).lines[m].success_count = 0
    /\ main_pc = "exited" => runs = 0

\* C38: in every statistics line that is logged, articles_inserted <=
\* articles_built <= total_trending_news, the counts being those of the
\* market's ids returned, batch and discovered items.
C38_StatsOrdered ==
    stats # <<>> =>
        /\ stats[1].articles_inserted <= stats[1].articles_built
        /\ stats[1].articles_built <= stats[1].total_trending_news
        /\ stats[1].total_trending_news = Len(trending_news)
        /\ stats[1].articles_built = Len(batch[1])
        /\ stats[1].articles_inserted = Len(insert_ret[1].ids)

\* a market that discovered two items, built one and, its insert_many
\* failing, inserted none
C38_Witness ==
    /\ stats # <<>>
    /\ stats[1].total_trending_news = 2
    /\ stats[1].articles_built = 1
    /\ stats[1].articles_inserted = 0
    /\ insert_ret[1].called

\* documents of the store that a bulk insert of this run wrote
InsertedThisRun == {d \in store : \E k \in DOMAIN inserted : inserted[k] = d.id}

\* C39: during a market's build phase, an item whose url was inserted by the
\* bulk insert of an earlier market of the same run is skipped once its task
\* has started: the existence check reports it and build is not invoked.
C39_DedupAcrossMarkets ==
    pc = "build" =>
        \A i \in DOMAIN tasks :
            ( /\ tasks[i].pc # "pending"
              /\ \E d \in InsertedThisRun : d.url = trending_news[i] )
            => /\ tasks[i].existed
               /\ ~tasks[i].built
               /\ tasks[i].pc = "done"
               /\ tasks[i].result = <<>>

\* the second market discovered the url the first market inserted and nothing
\* else stored, and the item's task ended at the existence check
C39_Witness ==
    /\ market = 2
    /\ pc = "build"
    /\ \E i \in DOMAIN tasks :
          /\ tasks[i].pc = "done"
          /\ tasks[i].existed
          /\ \E d \in InsertedThisRun : d.url = trending_news[i]
          /\ \A d \in store : d.url = trending_news[i] => d \in InsertedThisRun

\* C40: a pipeline run terminates: whatever the news API, the existence
\* checks, the fetch stages, the extraction and the bulk inserts answer,
\* run_pipeline eventually returns its result list.
C40_RunTerminates == <>(pc = "done")

\* run_pipeline returned after a market whose discovery failed and a market
\* whose items all failed to build
C40_Witness ==
    /\ pc = "done"
    /\ \E m \in Markets : marketLog[m] = "failed" /\ srcErr[m] = "BingNewsError"
    /\ trending_news # <<>>
    /\ \A i \in DOMAIN tasks : tasks[i].built /\ tasks[i].result = <<>>

====
